---- MODULE Spec2Model ----
(***************************************************************************)
(* A model of the indexed data readers (caffe/util/indexed_data.hpp) and   *)
(* of the common layers (caffe/common_layers.hpp).                         *)
(*                                                                         *)
(* Only the two headers are available: whatever a header declares (fields, *)
(* blob-count declarations, inline bodies, documented contracts) is        *)
(* modelled from it; the bodies that live in the .cpp files are modelled   *)
(* from the written specification and are marked so in MODEL_MAP.json.     *)
(***************************************************************************)
EXTENDS Integers, Sequences, FiniteSets, TLC

(***************************************************************************)
(* Bounds of the model.                                                    *)
(***************************************************************************)
NumRecords == 2      \* records (lines) in the indexed source
MaxRecLen  == 2      \* longest record
BufCap     == 2      \* capacity of the caller's buffer; 0 <= length <= BufCap

Min(a, b) == IF a < b THEN a ELSE b

None == [none |-> TRUE]

(***************************************************************************)
(* State                                                                   *)
(***************************************************************************)
VARIABLES
  \* the indexed data readers
  source_file,  \* the text file the storage was constructed from, by line
  data_,        \* LinearIndexedStorage::data_   : all records, back to back
  indices_,     \* LinearIndexedStorage::indices_: start offset of each record
  cache,        \* the IndexedDataReadCache, None before it is constructed
  memo,         \* the cache's memoized records, by index
  out,          \* the caller allocated storage, after the last read
  ret,          \* the value returned by the last read
  call,         \* the last read: by whom, index, length, out's fill before it
  first,        \* the first read made of the storage, to compare later ones to
  configured,   \* the length the cache was constructed with
  \* the layer contract
  layer_type,   \* which layer class the instance is
  num_bottom,   \* bottom.size() the layer is wired to
  num_top,      \* top.size() the layer is wired to
  state,        \* Constructed, SetUp, Ready, Destroyed; Failed after a fatal
  history,      \* the states entered so far, in order
  error,        \* the fatal error reported, if any
  layer_setups, \* calls of LayerSetUp
  reshapes,     \* calls of Reshape
  forwards,     \* completed Forward passes
  backwards,    \* completed Backward passes
  invoked,      \* Backward passes invoked, completed or not
  diff_writes,  \* bottom diffs written by Backward passes
  ran_in,       \* the states in which a Forward or Backward pass was run
  \* a ConcatLayer feeding a SliceLayer
  concat_bottom,  \* the ConcatLayer's bottom blobs
  concat_dim_,    \* ConcatLayer::concat_dim_
  concat_top,     \* the ConcatLayer's top blob, the SliceLayer's bottom
  slice_dim_,     \* SliceLayer::slice_dim_
  slice_point_,   \* SliceLayer::slice_point_
  slice_top,      \* the SliceLayer's top blobs
  cs_stage,       \* how far the two layers have got
  \* a FilterLayer
  filter_bottom,        \* bottom IF, TO_BE_FORWARDED, LABELS: data and diff
  filter_top,           \* top labels, top THEN: data and diff
  conditional_index,    \* the target the IF test is compared with
  indices_to_forward_,  \* FilterLayer::indices_to_forward_
  first_reshape_,       \* FilterLayer::first_reshape_
  filter_stage,         \* how far the layer has got
  filter_down,          \* the last Backward: propagate_down for
                        \* TO_BE_FORWARDED, and that bottom's diff before it
  \* an EltwiseLayer
  elt_bottom,     \* the bottom blobs: data and diff
  elt_top,        \* the top blob: data and diff
  max_idx_,       \* EltwiseLayer::max_idx_
  elt_stage,      \* how far the layer has got
  elt_down,       \* the last Backward: propagate_down, the diffs before it
  \* a FlattenLayer
  heap,           \* the storages blobs point to
  flat_bottom,    \* the bottom blob: shape, data and diff storage
  flat_top,       \* the top blob: shape, data and diff storage
  count_,         \* FlattenLayer::count_
  flat_stage,     \* the passes run so far
  flat_before,    \* the storages' contents before the last pass
  flat_writes,    \* writes made to the blobs from outside the layer
  \* a SilenceLayer
  sil_bottom,     \* the bottom blobs: data and diff
  sil_top,        \* the top blobs
  sil_stage,      \* how far the layer has got
  sil_down,       \* the last pass: propagate_down, the bottoms before it
  \* an ArgMaxLayer
  arg_bottom,     \* the bottom blob: shape and data
  arg_top,        \* the top blob: shape and data
  top_k_,         \* ArgMaxLayer::top_k_
  out_max_val_,   \* ArgMaxLayer::out_max_val_
  arg_stage       \* how far the layer has got

readerVars == <<source_file, data_, indices_, cache, memo, out, ret, call,
                first, configured>>

layerVars == <<layer_type, num_bottom, num_top, state, history, error,
               layer_setups, reshapes, forwards, backwards, invoked,
               diff_writes, ran_in>>

concatVars == <<concat_bottom, concat_dim_, concat_top, slice_dim_,
                slice_point_, slice_top, cs_stage>>

filterVars == <<filter_bottom, filter_top, conditional_index,
                indices_to_forward_, first_reshape_, filter_stage,
                filter_down>>

eltwiseVars == <<elt_bottom, elt_top, max_idx_, elt_stage, elt_down>>

flattenVars == <<heap, flat_bottom, flat_top, count_, flat_stage,
                 flat_before, flat_writes>>

silenceVars == <<sil_bottom, sil_top, sil_stage, sil_down>>

argmaxVars == <<arg_bottom, arg_top, top_k_, out_max_val_, arg_stage>>

vars == <<readerVars, layerVars, concatVars, filterVars, eltwiseVars,
          flattenVars, silenceVars, argmaxVars>>

\* What an operation on one component leaves alone.
notReader  == <<layerVars, concatVars, filterVars, eltwiseVars, flattenVars,
                silenceVars, argmaxVars>>
notLayer   == <<readerVars, concatVars, filterVars, eltwiseVars, flattenVars,
                silenceVars, argmaxVars>>
notConcat  == <<readerVars, layerVars, filterVars, eltwiseVars, flattenVars,
                silenceVars, argmaxVars>>
notFilter  == <<readerVars, layerVars, concatVars, eltwiseVars, flattenVars,
                silenceVars, argmaxVars>>
notEltwise == <<readerVars, layerVars, concatVars, filterVars, flattenVars,
                silenceVars, argmaxVars>>
notFlatten == <<readerVars, layerVars, concatVars, filterVars, eltwiseVars,
                silenceVars, argmaxVars>>
notSilence == <<readerVars, layerVars, concatVars, filterVars, eltwiseVars,
                flattenVars, argmaxVars>>
notArgMax  == <<readerVars, layerVars, concatVars, filterVars, eltwiseVars,
                flattenVars, silenceVars>>

\* A component that is not there.
ConcatIdle ==
  /\ concat_bottom = <<>> /\ concat_dim_ = 0 /\ concat_top = <<>>
  /\ slice_dim_ = 0 /\ slice_point_ = <<>> /\ slice_top = <<>>
  /\ cs_stage = ""

FilterIdle ==
  /\ filter_bottom = <<>> /\ filter_top = <<>> /\ conditional_index = 0
  /\ indices_to_forward_ = <<>> /\ first_reshape_ = FALSE
  /\ filter_stage = "" /\ filter_down = <<>>

EltwiseIdle ==
  /\ elt_bottom = <<>> /\ elt_top = <<>> /\ max_idx_ = <<>>
  /\ elt_stage = "" /\ elt_down = <<>>

FlattenIdle ==
  /\ heap = <<>> /\ flat_bottom = <<>> /\ flat_top = <<>> /\ count_ = 0
  /\ flat_stage = "" /\ flat_before = <<>> /\ flat_writes = 0

SilenceIdle ==
  /\ sil_bottom = <<>> /\ sil_top = <<>> /\ sil_stage = ""
  /\ sil_down = <<>>

ArgMaxIdle ==
  /\ arg_bottom = <<>> /\ arg_top = <<>> /\ top_k_ = 0
  /\ out_max_val_ = FALSE /\ arg_stage = ""

(***************************************************************************)
(* Indexed data readers                                                    *)
(***************************************************************************)
Indices == 0..(NumRecords - 1)

\* What a caller's buffer holds before a read: zeros, or stale values.
Fills == {0, 99}

\* The value stored at position p (1-based) of line i of the source file.
Token(i, p) == 10 * (i + 1) + p

\* A source file whose line k holds lens[k] numbers.
Lines(lens) == [k \in 1..NumRecords |->
                  [p \in 1..lens[k] |-> Token(k - 1, p)]]

RECURSIVE ParseLines(_, _, _)
\* SimpleIndexedTextFile's constructor: each line is one record; the offset
\* table is built eagerly while the numbers are appended to data_.
ParseLines(lines, data, indices) ==
  IF lines = <<>> THEN [data_ |-> data, indices_ |-> indices]
  ELSE ParseLines(Tail(lines), data \o Head(lines),
                  Append(indices, Len(data)))

SimpleIndexedTextFile(lines) == ParseLines(lines, <<>>, <<>>)

\* The extent of record `index` (0-based) in data_.
RecordBegin(indices, index) == indices[index + 1]
RecordEnd(data, indices, index) ==
  IF index + 1 < Len(indices) THEN indices[index + 2] ELSE Len(data)

\* Which record a read of `index` serves: read is stateless, not stream-like.
StreamLikeRecord(index) ==
  IF call = None THEN index ELSE (index + call.index + 1) % NumRecords
ServedRecord(index) == index

\* How many values a read copies into out.
CopiedAll(actual, length) == actual
Copied(actual, length) == Min(actual, length)

\* What a read returns: the actual length of the data (an index_type; the
\* lengths here are far below 2^32).
ReturnedCopied(actual, length) == Min(actual, length)
Returned(actual, length) == actual

\* LinearIndexedStorage::read(index, out, length)
LinearRead(data, indices, index, buf, length) ==
  LET rec    == ServedRecord(index)
      begin  == RecordBegin(indices, rec)
      actual == RecordEnd(data, indices, rec) - begin
      n      == Copied(actual, length)
  IN [out |-> [p \in 1..Len(buf) |->
                 IF p <= n /\ begin + p <= Len(data) THEN data[begin + p]
                 ELSE buf[p]],
      ret |-> Returned(actual, length)]

\* IndexedDataReadCache(reader, length)
CacheCtorZero(length) == [length_ |-> 0]
CacheCtor(length) == [length_ |-> length]

\* IndexedDataReadCache::data_length()
data_length(c) == c.length_

\* A memoized record: what the wrapped reader returned for a read of
\* length_ values.
Fetch(data, indices, index, length) ==
  LET r == LinearRead(data, indices, index, [p \in 1..length |-> 0], length)
  IN [len |-> r.ret, data |-> SubSeq(r.out, 1, Min(r.ret, length))]

\* Where the cache keeps the record of `index`.
MemoSlotShared(index) == 0
MemoSlot(index) == index

\* Serving a read from a memoized record.
Serve(m, buf, length) ==
  [out |-> [p \in 1..Len(buf) |->
              IF p <= Min(Len(m.data), length) THEN m.data[p] ELSE buf[p]],
   ret |-> m.len]

\* The caller's buffer before a read.
Buffer(fill) == [p \in 1..BufCap |-> fill]

\* The readers, unused.
ReaderIdle ==
  /\ source_file = <<>> /\ data_ = <<>> /\ indices_ = <<>>
  /\ cache = None /\ memo = <<>> /\ out = <<>> /\ ret = 0
  /\ call = None /\ first = None /\ configured = 0

\* The state after a SimpleIndexedTextFile has been constructed.
StorageInit ==
  /\ \E lens \in [1..NumRecords -> 0..MaxRecLen] :
       /\ source_file = Lines(lens)
       /\ LET s == SimpleIndexedTextFile(Lines(lens))
          IN data_ = s.data_ /\ indices_ = s.indices_
  /\ cache = None
  /\ memo = [i \in Indices |-> None]
  /\ out = Buffer(0)
  /\ ret = 0
  /\ call = None
  /\ first = None
  /\ configured = 0

\* A caller reads record `index` of the storage into out[1..length].
Read(index, length, fill) ==
  LET r == LinearRead(data_, indices_, index, Buffer(fill), length)
      c == [by |-> "reader", index |-> index, length |-> length,
            fill |-> fill, hit |-> FALSE]
  IN /\ out' = r.out
     /\ ret' = r.ret
     /\ call' = c
     /\ first' = IF first = None THEN [call |-> c, out |-> r.out, ret |-> r.ret]
                 ELSE first
     /\ UNCHANGED <<source_file, data_, indices_, cache, memo, configured>>
     /\ UNCHANGED notReader

\* The cache is constructed over the storage with a record length.
MakeCache(length) ==
  /\ cache = None
  /\ cache' = CacheCtor(length)
  /\ configured' = length
  /\ UNCHANGED <<source_file, data_, indices_, memo, out, ret, call, first>>
  /\ UNCHANGED notReader

\* A caller reads record `index` through the cache: a memoized record is
\* served without the wrapped reader, any other is fetched from it first.
CacheRead(index, length, fill) ==
  /\ cache # None
  /\ LET slot == MemoSlot(index)
         hit  == memo[slot] # None
         m    == IF hit THEN memo[slot]
                 ELSE Fetch(data_, indices_, index, cache.length_)
         r    == Serve(m, Buffer(fill), length)
     IN /\ memo' = [memo EXCEPT ![slot] = m]
        /\ out' = r.out
        /\ ret' = r.ret
        /\ call' = [by |-> "cache", index |-> index, length |-> length,
                    fill |-> fill, hit |-> hit]
  /\ UNCHANGED <<source_file, data_, indices_, cache, first, configured>>
  /\ UNCHANGED notReader

\* The cache drops a memoized record (its replacement policy is free).
CacheEvict(index) ==
  /\ cache # None
  /\ memo[index] # None
  /\ memo' = [memo EXCEPT ![index] = None]
  /\ UNCHANGED <<source_file, data_, indices_, cache, out, ret, call, first,
                 configured>>
  /\ UNCHANGED notReader

ReaderNext ==
  \E index \in Indices, length \in 0..BufCap, fill \in Fills :
     Read(index, length, fill)

CacheNext ==
  \/ \E length \in 0..MaxRecLen : MakeCache(length)
  \/ \E index \in Indices, length \in 0..BufCap, fill \in Fills :
        CacheRead(index, length, fill)
  \/ \E index \in Indices : CacheEvict(index)

(***************************************************************************)
(* The layer contract: blob counts, set-up, forward and backward passes    *)
(***************************************************************************)
MaxBlobs  == 3       \* most bottom (top) blobs a layer is wired to
MaxPasses == 2       \* cap of the pass counters

LayerTypes == {"ArgMax", "Concat", "Eltwise", "Filter", "Flatten",
               "InnerProduct", "MVN", "Silence", "Softmax", "Split", "Slice"}

\* A blob-count function a class does not override declares nothing.
Undeclared == 0 - 1

\* virtual inline int ExactNumBottomBlobs() const
ExactNumBottomBlobs(t) ==
  CASE t = "ArgMax"       -> 1
    [] t = "Filter"       -> 3
    [] t = "Flatten"      -> 1
    [] t = "InnerProduct" -> 1
    [] t = "MVN"          -> 1
    [] t = "Softmax"      -> 1
    [] t = "Split"        -> 1
    [] t = "Slice"        -> 1
    [] OTHER              -> Undeclared

\* virtual inline int MinBottomBlobs() const
MinBottomBlobsOne(t) ==
  CASE t \in {"Concat", "Eltwise", "Silence"} -> 1
    [] OTHER -> Undeclared
MinBottomBlobs(t) ==
  CASE t = "Concat"  -> 2
    [] t = "Eltwise" -> 2
    [] t = "Silence" -> 1
    [] OTHER         -> Undeclared

\* virtual inline int ExactNumTopBlobs() const
ExactNumTopBlobs(t) ==
  CASE t = "ArgMax"       -> 1
    [] t = "Concat"       -> 1
    [] t = "Eltwise"      -> 1
    [] t = "Filter"       -> 2
    [] t = "Flatten"      -> 1
    [] t = "InnerProduct" -> 1
    [] t = "MVN"          -> 1
    [] t = "Silence"      -> 0
    [] t = "Softmax"      -> 1
    [] OTHER              -> Undeclared

\* virtual inline int MinTopBlobs() const
MinTopBlobs(t) ==
  CASE t = "Split" -> 1
    [] t = "Slice" -> 2
    [] OTHER       -> Undeclared

\* The blob counts of a layer are checked against its declarations when it
\* is set up.
CheckBlobCounts(t, nb, nt) ==
  /\ ExactNumBottomBlobs(t) >= 0 => nb = ExactNumBottomBlobs(t)
  /\ MinBottomBlobs(t) >= 0 => nb >= MinBottomBlobs(t)
  /\ ExactNumTopBlobs(t) >= 0 => nt = ExactNumTopBlobs(t)
  /\ MinTopBlobs(t) >= 0 => nt >= MinTopBlobs(t)

\* The states in which the passes of a layer are run.
RunsBeforeSetUp(s) == s \in {"Constructed", "Ready"}
Runs(s) == s = "Ready"

\* Backward_cpu: ArgMaxLayer's body is NOT_IMPLEMENTED.
Backward_cpuSilent(t) == "done"
Backward_cpu(t) == IF t = "ArgMax" THEN "NOT_IMPLEMENTED" ELSE "done"

\* The layer contract, unused.
LayerIdle ==
  /\ layer_type = "" /\ num_bottom = 0 /\ num_top = 0
  /\ state = "" /\ history = <<>> /\ error = ""
  /\ layer_setups = 0 /\ reshapes = 0 /\ forwards = 0 /\ backwards = 0
  /\ invoked = 0 /\ diff_writes = 0 /\ ran_in = {}

\* A layer of some class is constructed and wired to its blobs.
LayerInit ==
  /\ layer_type \in LayerTypes
  /\ num_bottom \in 0..MaxBlobs
  /\ num_top \in 0..MaxBlobs
  /\ state = "Constructed" /\ history = <<"Constructed">> /\ error = "none"
  /\ layer_setups = 0 /\ reshapes = 0 /\ forwards = 0 /\ backwards = 0
  /\ invoked = 0 /\ diff_writes = 0 /\ ran_in = {}

Enter(s) == state' = s /\ history' = Append(history, s)

\* SetUp, first half: the blob counts are checked, then LayerSetUp runs.
SetUp ==
  /\ state = "Constructed"
  /\ IF CheckBlobCounts(layer_type, num_bottom, num_top)
     THEN /\ Enter("SetUp")
          /\ layer_setups' = layer_setups + 1
          /\ UNCHANGED error
     ELSE /\ Enter("Failed")
          /\ error' = "blob_count"
          /\ UNCHANGED layer_setups
  /\ UNCHANGED <<layer_type, num_bottom, num_top, reshapes, forwards,
                 backwards, invoked, diff_writes, ran_in>>
  /\ UNCHANGED notLayer

\* SetUp, second half: the first Reshape.
SetUpReshape ==
  /\ state = "SetUp"
  /\ Enter("Ready")
  /\ reshapes' = reshapes + 1
  /\ UNCHANGED <<layer_type, num_bottom, num_top, error, layer_setups,
                 forwards, backwards, invoked, diff_writes, ran_in>>
  /\ UNCHANGED notLayer

\* Reshape, whenever the bottom shapes change.
Reshape ==
  /\ state = "Ready"
  /\ reshapes <= MaxPasses
  /\ reshapes' = reshapes + 1
  /\ UNCHANGED <<layer_type, num_bottom, num_top, state, history, error,
                 layer_setups, forwards, backwards, invoked, diff_writes,
                 ran_in>>
  /\ UNCHANGED notLayer

\* Forward(bottom, top)
Forward ==
  /\ Runs(state)
  /\ forwards < MaxPasses
  /\ forwards' = forwards + 1
  /\ ran_in' = ran_in \cup {state}
  /\ UNCHANGED <<layer_type, num_bottom, num_top, state, history, error,
                 layer_setups, reshapes, backwards, invoked, diff_writes>>
  /\ UNCHANGED notLayer

\* Backward(top, propagate_down, bottom)
Backward(propagate_down) ==
  /\ Runs(state)
  /\ backwards < MaxPasses
  /\ invoked' = invoked + 1
  /\ ran_in' = ran_in \cup {state}
  /\ IF Backward_cpu(layer_type) = "NOT_IMPLEMENTED"
     THEN /\ Enter("Failed")
          /\ error' = "not_implemented"
          /\ UNCHANGED <<backwards, diff_writes>>
     ELSE /\ backwards' = backwards + 1
          /\ diff_writes' = IF propagate_down /\ num_bottom > 0
                            THEN diff_writes + 1 ELSE diff_writes
          /\ UNCHANGED <<state, history, error>>
  /\ UNCHANGED <<layer_type, num_bottom, num_top, layer_setups, reshapes,
                 forwards>>
  /\ UNCHANGED notLayer

\* The layer is destroyed.
Destroy ==
  /\ state = "Ready"
  /\ Enter("Destroyed")
  /\ UNCHANGED <<layer_type, num_bottom, num_top, error, layer_setups,
                 reshapes, forwards, backwards, invoked, diff_writes, ran_in>>
  /\ UNCHANGED notLayer

LayerNext ==
  \/ SetUp
  \/ SetUpReshape
  \/ Reshape
  \/ Forward
  \/ \E propagate_down \in BOOLEAN : Backward(propagate_down)
  \/ Destroy

(***************************************************************************)
(* Blobs                                                                   *)
(***************************************************************************)
MaxInputs == 3       \* most bottom blobs of a Concat or Eltwise layer
MaxDim    == 2       \* largest num and channels of a blob

\* count() of a blob of shape (num, channels, height, width)
Count(shape) == shape[1] * shape[2] * shape[3] * shape[4]

\* offset(n, c): the linear offset of element (n, c, 0, 0)
Offset(shape, n, c) == ((n * shape[2] + c) * shape[3]) * shape[4]

\* What a read outside an array yields.
Garbage == 0 - 1

\* caffe_copy(N, X + xoff, Y + yoff): Y with N values of X copied into it
caffe_copy(N, X, xoff, Y, yoff) ==
  [p \in 1..Len(Y) |->
     IF yoff < p /\ p <= yoff + N
     THEN (IF xoff + (p - yoff) <= Len(X) THEN X[xoff + (p - yoff)]
           ELSE Garbage)
     ELSE Y[p]]

\* A blob reshaped: its data is allocated, zero-filled.
Reshaped(shape) == [shape |-> shape, data |-> [p \in 1..Count(shape) |-> 0]]

(***************************************************************************)
(* ConcatLayer and SliceLayer                                              *)
(***************************************************************************)
\* height and width of the blobs
InnerDims == {<<1, 1>>, <<2, 1>>, <<1, 2>>}

\* The value of element p of input i.
Element(i, p) == 100 * i + p

RECURSIVE SumDim(_, _, _)
\* The sizes of blobs[1..i] along dimension d (1: num, 2: channels), summed.
SumDim(blobs, i, d) ==
  IF i = 0 THEN 0 ELSE SumDim(blobs, i - 1, d) + blobs[i].shape[d]

\* ConcatLayer::Reshape: the top's shape; the dimensions that are not
\* concatenated must match.
ConcatShapesMatch(bottom, dim) ==
  \A i \in 1..Len(bottom) : \A d \in 1..4 :
     d # dim + 1 => bottom[i].shape[d] = bottom[1].shape[d]

ConcatTopShape(bottom, dim) ==
  [d \in 1..4 |-> IF d = dim + 1 THEN SumDim(bottom, Len(bottom), d)
                  ELSE bottom[1].shape[d]]

RECURSIVE ConcatRows(_, _, _, _, _)
\* for (n = 0; n < num_; ++n) caffe_copy(num_elem, bottom + offset(n),
\*                                       top + offset(n, offset_channel))
ConcatRows(n, blob, top_shape, offset_channel, top_data) ==
  IF n = blob.shape[1] THEN top_data
  ELSE ConcatRows(n + 1, blob, top_shape, offset_channel,
         caffe_copy(blob.shape[2] * blob.shape[3] * blob.shape[4],
                    blob.data, Offset(blob.shape, n, 0),
                    top_data, Offset(top_shape, n, offset_channel)))

\* How far the next input lands after one that takes `size` along the
\* concatenated dimension.
StayPut(offset, size) == offset
Advance(offset, size) == offset + size

RECURSIVE ConcatForward_cpu(_, _, _, _, _, _)
\* ConcatLayer::Forward_cpu: the inputs, in the listed order, copied into
\* contiguous regions of the top along concat_dim_.
ConcatForward_cpu(bottom, i, dim, offset, top_shape, top_data) ==
  IF i > Len(bottom) THEN top_data
  ELSE IF dim = 0
  THEN ConcatForward_cpu(bottom, i + 1, dim,
         Advance(offset, bottom[i].shape[1]), top_shape,
         caffe_copy(Count(bottom[i].shape), bottom[i].data, 0,
                    top_data, Offset(top_shape, offset, 0)))
  ELSE ConcatForward_cpu(bottom, i + 1, dim,
         Advance(offset, bottom[i].shape[2]), top_shape,
         ConcatRows(0, bottom[i], top_shape, offset, top_data))

\* SliceLayer::Reshape: the sizes of the tops along slice_dim_, from the
\* cut points, or equal sizes when no cut point is given.
RECURSIVE SliceSizes(_, _, _, _)
SliceSizes(points, i, prev, size) ==
  IF i > Len(points) THEN <<size - prev>>
  ELSE <<points[i] - prev>> \o SliceSizes(points, i + 1, points[i], size)

Slices(points, ntop, size) ==
  IF points # <<>> THEN SliceSizes(points, 1, 0, size)
  ELSE [i \in 1..ntop |-> size \div ntop]

\* The cut points must be strictly increasing and within the bottom, one
\* fewer than the tops; without cut points the tops must divide the bottom.
SliceConfigOK(points, ntop, size) ==
  IF points # <<>>
  THEN /\ Len(points) = ntop - 1
       /\ ntop <= size
       /\ \A i \in 1..Len(points) :
             points[i] > (IF i = 1 THEN 0 ELSE points[i - 1])
       /\ points[Len(points)] < size
  ELSE size % ntop = 0

SliceTopShape(bottom_shape, dim, size) ==
  [d \in 1..4 |-> IF d = dim + 1 THEN size ELSE bottom_shape[d]]

RECURSIVE SliceRows(_, _, _, _, _)
\* for (n = 0; n < num_; ++n) caffe_copy(num_elem,
\*     bottom + offset(n, offset_channel), top + offset(n))
SliceRows(n, bottom, offset_channel, top_shape, top_data) ==
  IF n = bottom.shape[1] THEN top_data
  ELSE SliceRows(n + 1, bottom, offset_channel, top_shape,
         caffe_copy(top_shape[2] * top_shape[3] * top_shape[4],
                    bottom.data, Offset(bottom.shape, n, offset_channel),
                    top_data, Offset(top_shape, n, 0)))

\* SliceLayer::Forward_cpu, for top i, which starts at `offset` along
\* slice_dim_.
SliceForward_cpu(bottom, dim, offset, top) ==
  IF dim = 0
  THEN caffe_copy(Count(top.shape), bottom.data,
                  Offset(bottom.shape, offset, 0), top.data, 0)
  ELSE SliceRows(0, bottom, offset, top.shape, top.data)

\* Concat's inputs: k blobs of sizes[i] along dimension dim, all of size
\* `common` along the other one (the last one one larger if `mismatch`).
ConcatInputs(k, dim, common, sizes, inner, mismatch) ==
  [i \in 1..k |->
     LET along == sizes[i]
         other == IF mismatch /\ i = k THEN common + 1 ELSE common
         shape == IF dim = 1 THEN <<other, along, inner[1], inner[2]>>
                  ELSE <<along, other, inner[1], inner[2]>>
     IN [shape |-> shape,
         data |-> [p \in 1..Count(shape) |-> Element(i, p)]]]

\* A ConcatLayer is constructed and wired to k bottoms.
ConcatInit ==
  /\ \E k \in 2..MaxInputs, dim \in 0..2, common \in 1..MaxDim,
        inner \in InnerDims, mismatch \in BOOLEAN :
       \E sizes \in [1..k -> 1..MaxDim] :
          /\ concat_bottom = ConcatInputs(k, dim, common, sizes, inner, mismatch)
          /\ concat_dim_ = dim
  /\ concat_top = <<>>
  /\ slice_dim_ = 0 /\ slice_point_ = <<>> /\ slice_top = <<>>
  /\ cs_stage = "constructed"

\* ConcatLayer: LayerSetUp (concat_dim_ is 0 or 1) and Reshape.
ConcatSetUp ==
  /\ cs_stage = "constructed"
  /\ IF concat_dim_ \in {0, 1} /\ ConcatShapesMatch(concat_bottom, concat_dim_)
     THEN /\ concat_top = <<>>
          /\ concat_top' = Reshaped(ConcatTopShape(concat_bottom, concat_dim_))
          /\ cs_stage' = "concat_ready"
     ELSE /\ cs_stage' = "failed"
          /\ UNCHANGED concat_top
  /\ UNCHANGED <<concat_bottom, concat_dim_, slice_dim_, slice_point_,
                 slice_top>>
  /\ UNCHANGED notConcat

\* ConcatLayer: Forward.
ConcatForward ==
  /\ cs_stage = "concat_ready"
  /\ concat_top' = [concat_top EXCEPT !.data =
        ConcatForward_cpu(concat_bottom, 1, concat_dim_, 0,
                          concat_top.shape, concat_top.data)]
  /\ cs_stage' = "concatenated"
  /\ UNCHANGED <<concat_bottom, concat_dim_, slice_dim_, slice_point_,
                 slice_top>>
  /\ UNCHANGED notConcat

\* The cut points at the boundaries between Concat's inputs.
Boundaries(bottom, dim) ==
  [i \in 1..(Len(bottom) - 1) |-> SumDim(bottom, i, dim + 1)]

\* SliceLayer, wired to Concat's top and ntop tops: LayerSetUp (slice_dim_
\* is 0 or 1, the cut points are taken) and Reshape.
SliceSetUp(dim, points, ntop) ==
  /\ cs_stage = "concatenated"
  /\ slice_dim_' = dim
  /\ slice_point_' = points
  /\ LET size == concat_top.shape[dim + 1]
     IN IF SliceConfigOK(points, ntop, size)
        THEN /\ slice_top' =
                  [i \in 1..ntop |->
                     Reshaped(SliceTopShape(concat_top.shape, dim,
                                            Slices(points, ntop, size)[i]))]
             /\ cs_stage' = "slice_ready"
        ELSE /\ cs_stage' = "failed"
             /\ UNCHANGED slice_top
  /\ UNCHANGED <<concat_bottom, concat_dim_, concat_top>>
  /\ UNCHANGED notConcat

\* SliceLayer: Forward.
SliceForward ==
  /\ cs_stage = "slice_ready"
  /\ slice_top' =
       [i \in 1..Len(slice_top) |->
          [slice_top[i] EXCEPT !.data =
             SliceForward_cpu(concat_top, slice_dim_,
                              SumDim(slice_top, i - 1, slice_dim_ + 1),
                              slice_top[i])]]
  /\ cs_stage' = "sliced"
  /\ UNCHANGED <<concat_bottom, concat_dim_, concat_top, slice_dim_,
                 slice_point_>>
  /\ UNCHANGED notConcat

ConcatNext ==
  \/ ConcatSetUp
  \/ ConcatForward
  \/ \E dim \in {0, 1}, ntop \in 2..MaxInputs,
        points \in {<<>>, <<1>>, Boundaries(concat_bottom, concat_dim_)} :
        SliceSetUp(dim, points, ntop)
  \/ SliceForward

(***************************************************************************)
(* FilterLayer                                                             *)
(***************************************************************************)
MaxSamples == 3      \* most samples (num) of the FilterLayer's bottoms

\* The bottoms and tops of the FilterLayer, by position.
IF_BLOB == 1
TO_BE_FORWARDED == 2
LABELS == 3
TOP_LABELS == 1
TOP_THEN == 2

\* What a diff holds before any Backward wrote it.
Stale == 7

\* caffe_set(N, alpha, Y + yoff)
caffe_set(N, alpha, Y, yoff) ==
  [p \in 1..Len(Y) |-> IF yoff < p /\ p <= yoff + N THEN alpha ELSE Y[p]]

\* The values of one sample: count() / num() of them.
Dim(blob) == blob.shape[2] * blob.shape[3] * blob.shape[4]

RECURSIVE MaxElement(_, _, _, _)
\* std::max_element over data[begin + 1 .. begin + n]: the offset of the
\* first largest value.
MaxElement(data, begin, n, best) ==
  IF n = 0 THEN best
  ELSE MaxElement(data, begin, n - 1,
         IF data[begin + n] >= data[begin + best + 1] THEN n - 1 ELSE best)

\* The IF test of sample n: the argmax of the IF blob over the sample.
Argmax(blob, n) ==
  MaxElement(blob.data, n * Dim(blob), Dim(blob), Dim(blob) - 1)

RECURSIVE IndicesToForward(_, _, _)
\* FilterLayer::Reshape: indices_to_forward_ is cleared, then every sample
\* whose IF test equals the conditional index is pushed back, in order.
IndicesToForward(blob, n, target) ==
  IF n = blob.shape[1] THEN <<>>
  ELSE (IF Argmax(blob, n) = target THEN <<n>> ELSE <<>>)
       \o IndicesToForward(blob, n + 1, target)

\* A blob reshaped to `num` samples shaped like those of `like`.
FilterReshaped(num, like) ==
  LET shape == <<num, like.shape[2], like.shape[3], like.shape[4]>>
  IN [shape |-> shape,
      data |-> [p \in 1..Count(shape) |-> 0],
      diff |-> [p \in 1..Count(shape) |-> 0]]

\* Which bottom sample lands in top sample s.
SamePosition(indices, s) == s
Forwarded(indices, s) == indices[s + 1]

RECURSIVE FilterForward_cpu(_, _, _, _)
\* FilterLayer::Forward_cpu, for one top: the samples of `bottom` at
\* indices_to_forward_, compacted into the top in their order.
FilterForward_cpu(bottom, indices, s, top_data) ==
  IF s = Len(indices) THEN top_data
  ELSE FilterForward_cpu(bottom, indices, s + 1,
         caffe_copy(Dim(bottom), bottom.data,
                    Forwarded(indices, s) * Dim(bottom),
                    top_data, s * Dim(bottom)))

\* What Backward leaves at a position that was not forwarded.
LeftAlone(dim, bottom_diff, n) == bottom_diff
Zeroed(dim, bottom_diff, n) == caffe_set(dim, 0, bottom_diff, n * dim)

RECURSIVE FilterBackward_cpu(_, _, _, _, _, _)
\* FilterLayer::Backward_cpu, for bottom TO_BE_FORWARDED: the top diff of
\* the s-th forwarded sample goes back to that sample's position, every
\* other position is set to zero.
FilterBackward_cpu(n, next, dim, indices, top_diff, bottom_diff) ==
  IF n * dim >= Len(bottom_diff) THEN bottom_diff
  ELSE IF next >= Len(indices) \/ n # indices[next + 1]
  THEN FilterBackward_cpu(n + 1, next, dim, indices, top_diff,
                          Zeroed(dim, bottom_diff, n))
  ELSE FilterBackward_cpu(n + 1, next + 1, dim, indices, top_diff,
         caffe_copy(dim, top_diff, next * dim, bottom_diff, n * dim))

\* The values of the IF blob.
IfValues == {0, 1}
\* The channels of the IF blob, the conditional indices, and the values per
\* sample to be forwarded.
IfChannels == {1, 2}
ConditionalIndices == {0, 1}
SampleDims == {1, 2}

FilterBlob(num, channels, base) ==
  LET shape == <<num, channels, 1, 1>>
  IN [shape |-> shape,
      data |-> [p \in 1..Count(shape) |-> base + p],
      diff |-> [p \in 1..Count(shape) |-> Stale]]

\* A FilterLayer is constructed and wired to its three bottoms.
FilterInit ==
  /\ \E num \in 1..MaxSamples, dim \in SampleDims, channels \in IfChannels :
       \E tests \in [1..(num * channels) -> IfValues] :
          filter_bottom =
            <<[FilterBlob(num, channels, 0) EXCEPT !.data = tests],
              FilterBlob(num, dim, 10),
              FilterBlob(num, 1, 50)>>
  /\ conditional_index \in ConditionalIndices
  /\ filter_top = <<>>
  /\ indices_to_forward_ = <<>>
  /\ first_reshape_ = TRUE
  /\ filter_stage = "constructed"
  /\ filter_down = <<>>

\* FilterLayer::Reshape: on the first reshape the tops take the bottoms'
\* num, afterwards the number of samples that pass the IF test.
FilterReshape ==
  LET indices == IndicesToForward(filter_bottom[IF_BLOB], 0, conditional_index)
      num     == IF first_reshape_ THEN filter_bottom[IF_BLOB].shape[1]
                 ELSE Len(indices)
  IN [indices |-> indices,
      top |-> <<FilterReshaped(num, filter_bottom[LABELS]),
                FilterReshaped(num, filter_bottom[TO_BE_FORWARDED])>>]

\* FilterLayer: LayerSetUp (first_reshape_ = true) and the first Reshape.
FilterSetUp ==
  /\ filter_stage = "constructed"
  /\ indices_to_forward_' = FilterReshape.indices
  /\ filter_top' = FilterReshape.top
  /\ first_reshape_' = FALSE
  /\ filter_stage' = "ready"
  /\ UNCHANGED <<filter_bottom, conditional_index, filter_down>>
  /\ UNCHANGED notFilter

\* FilterLayer: the Reshape of a forward pass, which the tops' size being
\* data-dependent makes due before every Forward.
FilterReshapeTops ==
  /\ filter_stage \in {"ready", "reshaped", "forwarded", "backwarded"}
  /\ indices_to_forward_' = FilterReshape.indices
  /\ filter_top' = FilterReshape.top
  /\ first_reshape_' = FALSE
  /\ filter_stage' = "reshaped"
  /\ UNCHANGED <<filter_bottom, conditional_index, filter_down>>
  /\ UNCHANGED notFilter

\* The top Forward fills: the one Reshape has shaped, as it is.
WholeBatch(top, bottom) == FilterReshaped(bottom.shape[1], bottom)
AlreadyShaped(top, bottom) == top

\* FilterLayer: Forward, which fills the tops Reshape has shaped.
FilterForward ==
  /\ filter_stage = "reshaped"
  /\ LET labels == AlreadyShaped(filter_top[TOP_LABELS], filter_bottom[LABELS])
         then   == AlreadyShaped(filter_top[TOP_THEN],
                                 filter_bottom[TO_BE_FORWARDED])
     IN filter_top' =
          <<[labels EXCEPT !.data =
               FilterForward_cpu(filter_bottom[LABELS], indices_to_forward_,
                                 0, labels.data)],
            [then EXCEPT !.data =
               FilterForward_cpu(filter_bottom[TO_BE_FORWARDED],
                                 indices_to_forward_, 0, then.data)]>>
  /\ filter_stage' = "forwarded"
  /\ UNCHANGED <<filter_bottom, conditional_index, indices_to_forward_,
                 first_reshape_, filter_down>>
  /\ UNCHANGED notFilter

\* The gradients a consumer of top THEN hands back: distinct values, or the
\* unit gradient.
TopDiff(unit, n) == [p \in 1..n |-> IF unit THEN 1 ELSE 200 + p]

\* FilterLayer: Backward, after the consumer of top THEN has set its diff.
FilterBackward(propagate_down, unit) ==
  /\ filter_stage \in {"forwarded", "backwarded"}
  /\ LET top_diff == TopDiff(unit, Len(filter_top[TOP_THEN].data))
     IN /\ filter_top' = [filter_top EXCEPT ![TOP_THEN].diff = top_diff]
        /\ filter_bottom' =
             IF propagate_down[TO_BE_FORWARDED]
             THEN [filter_bottom EXCEPT ![TO_BE_FORWARDED].diff =
                     FilterBackward_cpu(0, 0,
                        Dim(filter_bottom[TO_BE_FORWARDED]),
                        indices_to_forward_, top_diff, @)]
             ELSE filter_bottom
  /\ filter_down' = [flag |-> propagate_down[TO_BE_FORWARDED],
                      before |-> filter_bottom[TO_BE_FORWARDED].diff]
  /\ filter_stage' = "backwarded"
  /\ UNCHANGED <<conditional_index, indices_to_forward_, first_reshape_>>
  /\ UNCHANGED notFilter

FilterNext ==
  \/ FilterSetUp
  \/ FilterReshapeTops
  \/ FilterForward
  \/ \E propagate_down \in [1..3 -> BOOLEAN], unit \in BOOLEAN :
        FilterBackward(propagate_down, unit)

(***************************************************************************)
(* EltwiseLayer, op_ = MAX                                                 *)
(***************************************************************************)
\* count() of the blobs, and the values of their data
EltCounts == {1, 2}
EltValues == {0, 1}

\* The first two bottoms: the larger value wins, the second on a tie.
MaxOfFirstTwo(a, b) ==
  IF a > b THEN [value |-> a, idx |-> 0] ELSE [value |-> b, idx |-> 1]

\* Whether a later bottom's value replaces the maximum so far.
Smaller(b, top_value) == b < top_value
Larger(b, top_value) == b > top_value

RECURSIVE MaxOfRest(_, _, _, _)
\* Bottoms 2 and up: a strictly larger value replaces the maximum so far,
\* and its blob index is recorded.
MaxOfRest(bottom, blob_idx, p, best) ==
  IF blob_idx >= Len(bottom) THEN best
  ELSE MaxOfRest(bottom, blob_idx + 1, p,
         IF Larger(bottom[blob_idx + 1].data[p], best.value)
         THEN [value |-> bottom[blob_idx + 1].data[p], idx |-> blob_idx]
         ELSE best)

\* EltwiseLayer::Forward_cpu, MAX: per position, the maximum over the
\* bottoms and, in max_idx_, the bottom it came from.
EltwiseForward_cpu(bottom) ==
  [p \in 1..Len(bottom[1].data) |->
     MaxOfRest(bottom, 2, p,
               MaxOfFirstTwo(bottom[1].data[p], bottom[2].data[p]))]

\* The gradient Backward gives bottom i (from 0) at a position whose
\* maximum came from bottom `mask`.
SharedGradient(mask, i, top_diff) == top_diff
RoutedGradient(mask, i, top_diff) == IF mask = i THEN top_diff ELSE 0

\* EltwiseLayer::Backward_cpu, MAX, for bottom i (from 0)
EltwiseBackward_cpu(i, mask, top_diff) ==
  [p \in 1..Len(top_diff) |-> RoutedGradient(mask[p], i, top_diff[p])]

\* An EltwiseLayer is constructed and wired to k bottoms of equal count.
EltwiseInit ==
  /\ \E k \in 2..MaxInputs, count \in EltCounts :
       \E values \in [1..k -> [1..count -> EltValues]] :
          elt_bottom = [i \in 1..k |->
                          [data |-> values[i],
                           diff |-> [p \in 1..count |-> Stale]]]
  /\ elt_top = <<>>
  /\ max_idx_ = <<>>
  /\ elt_stage = "constructed"
  /\ elt_down = <<>>

\* EltwiseLayer: LayerSetUp and Reshape: the top and, for MAX, max_idx_
\* take the bottoms' shape.
EltwiseSetUp ==
  /\ elt_stage = "constructed"
  /\ elt_top' = [data |-> [p \in 1..Len(elt_bottom[1].data) |-> 0],
                 diff |-> [p \in 1..Len(elt_bottom[1].data) |-> 0]]
  /\ max_idx_' = [p \in 1..Len(elt_bottom[1].data) |-> 0]
  /\ elt_stage' = "ready"
  /\ UNCHANGED <<elt_bottom, elt_down>>
  /\ UNCHANGED notEltwise

\* EltwiseLayer: Forward.
EltwiseForward ==
  /\ elt_stage \in {"ready", "forwarded", "backwarded"}
  /\ LET r == EltwiseForward_cpu(elt_bottom)
     IN /\ elt_top' = [elt_top EXCEPT
                         !.data = [p \in 1..Len(r) |-> r[p].value]]
        /\ max_idx_' = [p \in 1..Len(r) |-> r[p].idx]
  /\ elt_stage' = "forwarded"
  /\ elt_down' = <<>>
  /\ UNCHANGED elt_bottom
  /\ UNCHANGED notEltwise

\* EltwiseLayer: Backward, after the consumer of the top has set its diff.
EltwiseBackward(propagate_down) ==
  /\ elt_stage = "forwarded"
  /\ LET top_diff == [p \in 1..Len(elt_top.data) |-> 20 + p]
     IN /\ elt_top' = [elt_top EXCEPT !.diff = top_diff]
        /\ elt_bottom' =
             [i \in 1..Len(elt_bottom) |->
                IF propagate_down[i]
                THEN [elt_bottom[i] EXCEPT !.diff =
                        EltwiseBackward_cpu(i - 1, max_idx_, top_diff)]
                ELSE elt_bottom[i]]
  /\ elt_down' = [flags |-> propagate_down,
                  before |-> [i \in 1..Len(elt_bottom) |-> elt_bottom[i].diff]]
  /\ elt_stage' = "backwarded"
  /\ UNCHANGED max_idx_
  /\ UNCHANGED notEltwise

EltwiseNext ==
  \/ EltwiseSetUp
  \/ EltwiseForward
  \/ \E propagate_down \in [1..Len(elt_bottom) -> BOOLEAN] :
        EltwiseBackward(propagate_down)

(***************************************************************************)
(* FlattenLayer                                                            *)
(***************************************************************************)
MaxWrites == 1       \* cap of the writes made from outside the layer

\* The shapes of the bottom blob.
FlatShapes == {<<1, 1, 1, 1>>, <<2, 1, 1, 1>>, <<1, 2, 1, 1>>, <<2, 2, 1, 1>>,
               <<1, 2, 2, 1>>, <<2, 1, 2, 2>>}

\* FlattenLayer::Reshape: the top is (N x CHW x 1 x 1).
MergedNum(shape) == <<shape[1] * shape[2], shape[3] * shape[4], 1, 1>>
FlattenTopShape(shape) == <<shape[1], shape[2] * shape[3] * shape[4], 1, 1>>

\* Blob::ShareData(other): the blob's data pointer is set to other's.
KeepData(blob, other) == blob
ShareData(blob, other) == [blob EXCEPT !.data = other.data]

\* Blob::ShareDiff(other): the blob's diff pointer is set to other's.
ShareDiff(blob, other) == [blob EXCEPT !.diff = other.diff]

\* A FlattenLayer is constructed and wired to a bottom blob that holds data.
FlattenInit ==
  /\ \E shape \in FlatShapes :
       /\ flat_bottom = [shape |-> shape, data |-> "bottom.data",
                         diff |-> "bottom.diff"]
       /\ heap = [h \in {"bottom.data", "bottom.diff", "top.data", "top.diff"}
                    |-> IF h = "bottom.data"
                        THEN [p \in 1..Count(shape) |-> 10 + p]
                        ELSE IF h = "bottom.diff"
                        THEN [p \in 1..Count(shape) |-> Stale]
                        ELSE <<>>]
  /\ flat_top = [shape |-> <<0, 0, 0, 0>>, data |-> "top.data",
                 diff |-> "top.diff"]
  /\ count_ = 0
  /\ flat_stage = "constructed"
  /\ flat_before = heap
  /\ flat_writes = 0

\* FlattenLayer: the first Reshape, which allocates the top.
FlattenSetUp ==
  /\ flat_stage = "constructed"
  /\ flat_top' = [flat_top EXCEPT !.shape = FlattenTopShape(flat_bottom.shape)]
  /\ count_' = Count(flat_bottom.shape)
  /\ heap' = [heap EXCEPT
                ![flat_top.data] = [p \in 1..Count(flat_bottom.shape) |-> 0],
                ![flat_top.diff] = [p \in 1..Count(flat_bottom.shape) |-> 30 + p]]
  /\ flat_before' = heap'
  /\ flat_stage' = "ready"
  /\ UNCHANGED <<flat_bottom, flat_writes>>
  /\ UNCHANGED notFlatten

\* FlattenLayer: a later Reshape; the top keeps its storage, its count is
\* the same.
FlattenReshape ==
  /\ flat_stage \in {"ready", "forwarded", "backwarded"}
  /\ flat_top' = [flat_top EXCEPT !.shape = FlattenTopShape(flat_bottom.shape)]
  /\ count_' = Count(flat_bottom.shape)
  /\ UNCHANGED <<heap, flat_bottom, flat_stage, flat_before, flat_writes>>
  /\ UNCHANGED notFlatten

\* FlattenLayer::Forward_cpu: top[0]->ShareData(*bottom[0])
FlattenForward ==
  /\ flat_stage \in {"ready", "forwarded", "backwarded"}
  /\ flat_top' = ShareData(flat_top, flat_bottom)
  /\ flat_before' = heap
  /\ flat_stage' = "forwarded"
  /\ UNCHANGED <<heap, flat_bottom, count_, flat_writes>>
  /\ UNCHANGED notFlatten

\* FlattenLayer::Backward_cpu: bottom[0]->ShareDiff(*top[0])
FlattenBackward ==
  /\ flat_stage \in {"forwarded", "backwarded"}
  /\ flat_bottom' = ShareDiff(flat_bottom, flat_top)
  /\ flat_before' = heap
  /\ flat_stage' = "backwarded"
  /\ UNCHANGED <<heap, flat_top, count_, flat_writes>>
  /\ UNCHANGED notFlatten

\* Another layer writes a value through one of the two blobs.
FlattenWrite(through_top, plane, p) ==
  /\ flat_stage # "constructed"
  /\ flat_writes < MaxWrites
  /\ LET blob == IF through_top THEN flat_top ELSE flat_bottom
         h    == IF plane = "data" THEN blob.data ELSE blob.diff
     IN /\ p <= Len(heap[h])
        /\ heap' = [heap EXCEPT ![h][p] = 90 + flat_writes]
  /\ flat_before' = heap'
  /\ flat_writes' = flat_writes + 1
  /\ UNCHANGED <<flat_bottom, flat_top, count_, flat_stage>>
  /\ UNCHANGED notFlatten

FlattenNext ==
  \/ FlattenSetUp
  \/ FlattenReshape
  \/ FlattenForward
  \/ FlattenBackward
  \/ \E through_top \in BOOLEAN, plane \in {"data", "diff"},
        p \in 1..Count(flat_bottom.shape) :
        FlattenWrite(through_top, plane, p)

(***************************************************************************)
(* SilenceLayer                                                            *)
(***************************************************************************)

\* A blob of `count` values: its data, and a diff no Backward has written.
SilenceBlob(i, count) ==
  [data |-> [p \in 1..count |-> 10 * i + p],
   diff |-> [p \in 1..count |-> Stale]]

\* A SilenceLayer is constructed and wired to its bottoms, and to whatever
\* tops the net gives it.
SilenceInit ==
  /\ \E k \in 0..MaxInputs :
       \E counts \in [1..k -> 1..MaxDim] :
          sil_bottom = [i \in 1..k |-> SilenceBlob(i, counts[i])]
  /\ \E ntop \in 0..1 : sil_top = [t \in 1..ntop |-> SilenceBlob(0, 0)]
  /\ sil_stage = "constructed"
  /\ sil_down = <<>>

\* SilenceLayer: SetUp: the blob counts are checked (at least one bottom,
\* exactly no top); LayerSetUp is the base's and Reshape's body is {}.
SilenceSetUp ==
  /\ sil_stage = "constructed"
  /\ sil_stage' = IF CheckBlobCounts("Silence", Len(sil_bottom), Len(sil_top))
                  THEN "ready" ELSE "failed"
  /\ UNCHANGED <<sil_bottom, sil_top, sil_down>>
  /\ UNCHANGED notSilence

\* SilenceLayer::Forward_cpu: its body is {}.
SilenceForward_cpuClears(blobs) ==
  [i \in 1..Len(blobs) |->
     [blobs[i] EXCEPT !.data = caffe_set(Len(@), 0, @, 0)]]
SilenceForward_cpu(blobs) == blobs

\* SilenceLayer: Forward.
SilenceForward ==
  /\ sil_stage \in {"ready", "forwarded", "backwarded"}
  /\ sil_bottom' = SilenceForward_cpu(sil_bottom)
  /\ sil_down' = [flags |-> <<>>, before |-> sil_bottom]
  /\ sil_stage' = "forwarded"
  /\ UNCHANGED sil_top
  /\ UNCHANGED notSilence

\* SilenceLayer::Backward_cpu: the diff of every bottom the gradient is
\* propagated down to is set to zero.
SilenceBackward_cpuAll(blobs, propagate_down) ==
  [i \in 1..Len(blobs) |->
     [blobs[i] EXCEPT !.diff = caffe_set(Len(@), 0, @, 0)]]
SilenceBackward_cpu(blobs, propagate_down) ==
  [i \in 1..Len(blobs) |->
     IF propagate_down[i]
     THEN [blobs[i] EXCEPT !.diff = caffe_set(Len(@), 0, @, 0)]
     ELSE blobs[i]]

\* SilenceLayer: Backward.
SilenceBackward(propagate_down) ==
  /\ sil_stage \in {"forwarded", "backwarded"}
  /\ sil_bottom' = SilenceBackward_cpu(sil_bottom, propagate_down)
  /\ sil_down' = [flags |-> propagate_down, before |-> sil_bottom]
  /\ sil_stage' = "backwarded"
  /\ UNCHANGED sil_top
  /\ UNCHANGED notSilence

SilenceNext ==
  \/ SilenceSetUp
  \/ SilenceForward
  \/ \E propagate_down \in [1..Len(sil_bottom) -> BOOLEAN] :
        SilenceBackward(propagate_down)

(***************************************************************************)
(* ArgMaxLayer                                                             *)
(***************************************************************************)
MaxArgNum == 2       \* most samples (num) of the ArgMaxLayer's bottom

\* The values the bottom holds, and the shapes (C, H, W) of a sample.
ArgValues == {0, 1, 2}
ArgSamples == {<<1, 1, 1>>, <<2, 1, 1>>, <<1, 3, 1>>}

\* The values of sample i (from 0) of the bottom, by index (from 0).
ArgSample(bottom, i) ==
  [j \in 0..(Dim(bottom) - 1) |-> bottom.data[i * Dim(bottom) + j + 1]]

\* Whether the value v at index j comes before the value w at index m in
\* the output: the larger value first, of equal values the one seen first.
BeatsLastSeen(v, j, w, m) == v > w \/ (v = w /\ j > m)
Beats(v, j, w, m) == v > w \/ (v = w /\ j < m)

\* The index that comes first among those not taken yet.
ArgBest(sample, taken) ==
  CHOOSE j \in DOMAIN sample \ taken :
     \A m \in DOMAIN sample \ (taken \cup {j}) :
        Beats(sample[j], j, sample[m], m)

RECURSIVE ArgSelect(_, _, _)
\* The first k indices of the sample in output order, after those of `picked`.
ArgSelect(sample, k, picked) ==
  IF Len(picked) = k THEN picked
  ELSE ArgSelect(sample, k,
         Append(picked,
                ArgBest(sample, {picked[q] : q \in 1..Len(picked)})))

\* ArgMaxLayer::Reshape: the top is (N, 1, K, 1), or (N, 2, K, 1) if
\* out_max_val_.
ArgMaxTopShape(bottom, k, out_max_val) ==
  <<bottom.shape[1], IF out_max_val THEN 2 ELSE 1, k, 1>>

\* ArgMaxLayer::Forward_cpu: for every sample the indices of its top_k_
\* values at top offset(i, 0, j) and, if out_max_val_, the values at
\* offset(i, 1, j).
ArgMaxForward_cpu(bottom, top, k, out_max_val) ==
  [p \in 1..Len(top.data) |->
     LET per == top.shape[2] * k
         i   == (p - 1) \div per
         c   == ((p - 1) % per) \div k
         j   == (p - 1) % k
         sample == ArgSample(bottom, i)
         picked == ArgSelect(sample, k, <<>>)
     IN IF c = 0 THEN picked[j + 1] ELSE sample[picked[j + 1]]]

\* An ArgMaxLayer is constructed with its parameter (top_k, out_max_val)
\* and wired to a bottom that holds data.
ArgMaxInit ==
  /\ \E num \in 1..MaxArgNum, sample \in ArgSamples :
       LET shape == <<num, sample[1], sample[2], sample[3]>>
       IN /\ \E data \in [1..Count(shape) -> ArgValues] :
               arg_bottom = [shape |-> shape, data |-> data]
          /\ top_k_ \in 0..(sample[1] * sample[2] * sample[3])
  /\ out_max_val_ \in BOOLEAN
  /\ arg_top = [shape |-> <<0, 0, 0, 0>>, data |-> <<>>]
  /\ arg_stage = "constructed"

\* ArgMaxLayer: LayerSetUp (top_k_ must not be less than 1) and Reshape.
ArgMaxSetUp ==
  /\ arg_stage = "constructed"
  /\ IF top_k_ >= 1
     THEN /\ arg_top' = Reshaped(ArgMaxTopShape(arg_bottom, top_k_,
                                                out_max_val_))
          /\ arg_stage' = "ready"
     ELSE /\ arg_stage' = "failed"
          /\ UNCHANGED arg_top
  /\ UNCHANGED <<arg_bottom, top_k_, out_max_val_>>
  /\ UNCHANGED notArgMax

\* ArgMaxLayer: Forward.
ArgMaxForward ==
  /\ arg_stage \in {"ready", "forwarded"}
  /\ arg_top' = [arg_top EXCEPT !.data =
                   ArgMaxForward_cpu(arg_bottom, arg_top, top_k_,
                                     out_max_val_)]
  /\ arg_stage' = "forwarded"
  /\ UNCHANGED <<arg_bottom, top_k_, out_max_val_>>
  /\ UNCHANGED notArgMax

\* ArgMaxLayer: Backward, whose Backward_cpu is NOT_IMPLEMENTED.
ArgMaxBackward ==
  /\ arg_stage \in {"ready", "forwarded"}
  /\ Backward_cpu("ArgMax") = "NOT_IMPLEMENTED"
  /\ arg_stage' = "failed"
  /\ UNCHANGED <<arg_bottom, arg_top, top_k_, out_max_val_>>
  /\ UNCHANGED notArgMax

ArgMaxNext ==
  \/ ArgMaxSetUp
  \/ ArgMaxForward
  \/ ArgMaxBackward

(***************************************************************************)
(* Specifications                                                          *)
(***************************************************************************)
ReaderInit ==
  StorageInit /\ LayerIdle /\ ConcatIdle /\ FilterIdle /\ EltwiseIdle
  /\ FlattenIdle /\ SilenceIdle /\ ArgMaxIdle

LayerOnlyInit ==
  LayerInit /\ ReaderIdle /\ ConcatIdle /\ FilterIdle /\ EltwiseIdle
  /\ FlattenIdle /\ SilenceIdle /\ ArgMaxIdle

SpecReader == ReaderInit /\ [][ReaderNext]_vars

SpecCache == ReaderInit /\ [][CacheNext]_vars

SpecLayer == LayerOnlyInit /\ [][LayerNext]_vars

ConcatOnlyInit ==
  ConcatInit /\ ReaderIdle /\ LayerIdle /\ FilterIdle /\ EltwiseIdle
  /\ FlattenIdle /\ SilenceIdle /\ ArgMaxIdle

SpecConcat == ConcatOnlyInit /\ [][ConcatNext]_vars

FilterOnlyInit ==
  FilterInit /\ ReaderIdle /\ LayerIdle /\ ConcatIdle /\ EltwiseIdle
  /\ FlattenIdle /\ SilenceIdle /\ ArgMaxIdle

SpecFilter == FilterOnlyInit /\ [][FilterNext]_vars

EltwiseOnlyInit ==
  EltwiseInit /\ ReaderIdle /\ LayerIdle /\ ConcatIdle /\ FilterIdle
  /\ FlattenIdle /\ SilenceIdle /\ ArgMaxIdle

SpecEltwise == EltwiseOnlyInit /\ [][EltwiseNext]_vars

FlattenOnlyInit ==
  FlattenInit /\ ReaderIdle /\ LayerIdle /\ ConcatIdle /\ FilterIdle
  /\ EltwiseIdle /\ SilenceIdle /\ ArgMaxIdle

SpecFlatten == FlattenOnlyInit /\ [][FlattenNext]_vars

SilenceOnlyInit ==
  SilenceInit /\ ReaderIdle /\ LayerIdle /\ ConcatIdle /\ FilterIdle
  /\ EltwiseIdle /\ FlattenIdle /\ ArgMaxIdle

SpecSilence == SilenceOnlyInit /\ [][SilenceNext]_vars

ArgMaxOnlyInit ==
  ArgMaxInit /\ ReaderIdle /\ LayerIdle /\ ConcatIdle /\ FilterIdle
  /\ EltwiseIdle /\ FlattenIdle /\ SilenceIdle

SpecArgMax == ArgMaxOnlyInit /\ [][ArgMaxNext]_vars

(***************************************************************************)
(* Claims about the indexed data readers                                   *)
(***************************************************************************)

\* Record `index` as the source file holds it.
Record(index) == source_file[index + 1]

\* What read(index, out, length) must leave in a buffer that held `fill`.
Expected(index, length, fill) ==
  [p \in 1..BufCap |->
     IF p <= Min(Len(Record(index)), length) THEN Record(index)[p] ELSE fill]

\* C1: read(i, out, L) writes the first min(actual_length, L) values of
\* record i into out, leaves every other position of out untouched, and
\* returns the record's actual length, truncated or not.
C1_ReadContract ==
  (call # None /\ call.by = "reader") =>
     /\ out = Expected(call.index, call.length, call.fill)
     /\ ret = Len(Record(call.index))

\* C1's case: a read truncated a record (return value larger than length)
\* after some values were copied, and left the rest of out untouched.
C1_Witness ==
  /\ call # None /\ call.by = "reader"
  /\ call.length >= 1
  /\ ret > call.length
  /\ call.fill = 99

Uniform == \A i \in Indices : Len(Record(i)) = configured

IsPrefix(s, t) == Len(s) <= Len(t) /\ s = SubSeq(t, 1, Len(s))

Lifecycle == <<"Constructed", "SetUp", "Ready", "Destroyed">>

ListedCounts(t, nb, nt) ==
  CASE t \in {"ArgMax", "Flatten", "InnerProduct", "MVN", "Softmax"}
         -> nb = 1 /\ nt = 1
    [] t \in {"Concat", "Eltwise"} -> nb >= 2 /\ nt = 1
    [] t = "Filter"  -> nb = 3 /\ nt = 2
    [] t = "Silence" -> nb >= 1 /\ nt = 0
    [] t = "Split"   -> nb = 1 /\ nt >= 1
    [] t = "Slice"   -> nb = 1 /\ nt >= 2

C7_ArgMaxBackward ==
  layer_type = "ArgMax" =>
     /\ backwards = 0 /\ diff_writes = 0
     /\ invoked > 0 => (state = "Failed" /\ error = "not_implemented")

\* C7's case: Backward was invoked on an ArgMax layer that had run Forward.
C7_Witness ==
  /\ layer_type = "ArgMax" /\ invoked = 1 /\ forwards >= 1
  /\ state = "Failed" /\ error = "not_implemented"

(***************************************************************************)
(* Claims about ConcatLayer and SliceLayer                                 *)
(***************************************************************************)

\* Slice cuts Concat's top where Concat's inputs meet.
CutAtBoundaries ==
  /\ slice_dim_ = concat_dim_
  /\ \/ slice_point_ = Boundaries(concat_bottom, concat_dim_)
     \/ /\ slice_point_ = <<>>
        /\ Len(slice_top) = Len(concat_bottom)
        /\ \A i \in 1..Len(concat_bottom) :
              concat_bottom[i].shape[concat_dim_ + 1]
                = concat_bottom[1].shape[concat_dim_ + 1]

\* C6: Slice after Concat, along the same dimension and cut at the
\* boundaries between Concat's inputs, gives back the inputs: as many tops
\* as inputs, in the listed order, each with the shape and the values of
\* its input.
C6_RoundTrip ==
  (cs_stage = "sliced" /\ CutAtBoundaries) => slice_top = concat_bottom

\* C6's case: three inputs of different sizes along the channel dimension,
\* more than one sample and more than one value per channel, were
\* concatenated and sliced back at explicit cut points.
C6_Witness ==
  /\ cs_stage = "sliced" /\ CutAtBoundaries
  /\ concat_dim_ = 1 /\ Len(concat_bottom) = 3
  /\ slice_point_ # <<>>
  /\ concat_bottom[1].shape[1] > 1
  /\ concat_bottom[1].shape[3] > 1
  /\ concat_bottom[1].shape[2] # concat_bottom[2].shape[2]

(***************************************************************************)
(* Claims about FilterLayer                                                *)
(***************************************************************************)

FilterNum == filter_bottom[IF_BLOB].shape[1]

\* The positions whose IF test equals the target.
Passing ==
  {n \in 0..(FilterNum - 1) :
     Argmax(filter_bottom[IF_BLOB], n) = conditional_index}

\* The position of the s-th (from 0) passing sample, in the original order.
NthPassing(s) ==
  CHOOSE n \in Passing : Cardinality({m \in Passing : m < n}) = s

\* Sample n of a plane of a blob.
SampleOf(plane, dim, n) == SubSeq(plane, n * dim + 1, (n + 1) * dim)

\* Forward: the tops hold the labels and the TO_BE_FORWARDED samples of the
\* passing positions, in their order, and nothing else.
FilterCompacted ==
  LET S == Cardinality(Passing)
  IN /\ S <= FilterNum
     /\ \A t \in {TOP_LABELS, TOP_THEN} :
          LET b == filter_bottom[IF t = TOP_LABELS THEN LABELS
                                 ELSE TO_BE_FORWARDED]
          IN /\ filter_top[t].shape[1] = S
             /\ Len(filter_top[t].data) = S * Dim(b)
             /\ \A s \in 0..(S - 1) :
                   SampleOf(filter_top[t].data, Dim(b), s)
                     = SampleOf(b.data, Dim(b), NthPassing(s))

\* Backward: the TO_BE_FORWARDED diff holds the s-th top gradient at the
\* s-th passing position and zero at every other; the other bottoms' diffs
\* are as they were.
FilterScattered ==
  LET b   == filter_bottom[TO_BE_FORWARDED]
      dim == Dim(b)
  IN /\ \A n \in 0..(FilterNum - 1) :
          SampleOf(b.diff, dim, n) =
            IF n \in Passing
            THEN SampleOf(filter_top[TOP_THEN].diff, dim,
                          Cardinality({m \in Passing : m < n}))
            ELSE [d \in 1..dim |-> 0]
     /\ \A j \in {IF_BLOB, LABELS} :
          \A p \in 1..Len(filter_bottom[j].diff) :
             filter_bottom[j].diff[p] = Stale

\* Backward wrote no diff.
FilterUntouched ==
  /\ filter_bottom[TO_BE_FORWARDED].diff = filter_down.before
  /\ \A j \in {IF_BLOB, LABELS} :
       \A p \in 1..Len(filter_bottom[j].diff) : filter_bottom[j].diff[p] = Stale

EltInputs == 1..Len(elt_bottom)
EltPositions == 1..Len(elt_top.data)

\* Forward: the top holds the maximum over the inputs and max_idx_ names an
\* input that holds it.
MaxRecorded ==
  \A p \in EltPositions :
     /\ max_idx_[p] + 1 \in EltInputs
     /\ elt_bottom[max_idx_[p] + 1].data[p] = elt_top.data[p]
     /\ \A i \in EltInputs : elt_bottom[i].data[p] <= elt_top.data[p]

\* Backward gave input i the whole top gradient where it is the recorded
\* input and zero where it is not.
RoutedTo(i) ==
  \A p \in EltPositions :
     elt_bottom[i].diff[p] =
       IF max_idx_[p] = i - 1 THEN elt_top.diff[p] ELSE 0

C10_Flatten ==
  /\ flat_stage # "constructed" =>
       /\ flat_top.shape = <<flat_bottom.shape[1],
                             flat_bottom.shape[2] * flat_bottom.shape[3]
                               * flat_bottom.shape[4], 1, 1>>
       /\ Count(flat_top.shape) = Count(flat_bottom.shape)
       /\ count_ = Count(flat_bottom.shape)
  /\ flat_stage \in {"forwarded", "backwarded"} =>
       /\ flat_top.data = flat_bottom.data
       /\ heap[flat_top.data] = heap[flat_bottom.data]
       /\ Len(heap[flat_top.data]) = Count(flat_top.shape)
       /\ heap = flat_before
  /\ flat_stage = "backwarded" =>
       /\ flat_bottom.diff = flat_top.diff
       /\ heap[flat_bottom.diff] = heap[flat_top.diff]

\* C10's case: after both passes of a layer whose bottom has several
\* channels, rows and columns, a value written through the top's data is
\* read through the bottom.
C10_Witness ==
  /\ flat_stage = "backwarded"
  /\ flat_bottom.shape = <<2, 1, 2, 2>>
  /\ flat_writes = 1
  /\ heap[flat_bottom.data][3] = 90

(***************************************************************************)
(* Claims about Forward and the shapes of the blobs                        *)
(***************************************************************************)

\* The shapes of the blobs of a vector.
Shapes(blobs) == [i \in DOMAIN blobs |-> blobs[i].shape]

\* The tops hold as many values as their shapes say.
Shaped(blobs) ==
  \A i \in DOMAIN blobs : Len(blobs[i].data) = Count(blobs[i].shape)

SilInputs == 1..Len(sil_bottom)

\* A plane of zeros only.
AllZero(plane) == \A p \in 1..Len(plane) : plane[p] = 0

\* Forward produced no top and left every bottom, data and diff, as before.
SilenceForwardNoOp ==
  /\ sil_top = <<>>
  /\ sil_bottom = sil_down.before

ArgTopAt(i, c, j) == arg_top.data[Offset(arg_top.shape, i, c) + j + 1]

\* Sample i's output: top_k_ distinct indices of the sample, the values at
\* them descending and equal values in the order of their indices, no value
\* left out that should come before the last one emitted; the values
\* themselves beside the indices if out_max_val_.
ArgTopK(i) ==
  LET sample == ArgSample(arg_bottom, i)
      idx(j) == ArgTopAt(i, 0, j)
      Places == 0..(top_k_ - 1)
      Emitted == {idx(j) : j \in Places}
  IN /\ \A j \in Places : idx(j) \in DOMAIN sample
     /\ Cardinality(Emitted) = top_k_
     /\ \A j \in Places \ {0} :
          \/ sample[idx(j - 1)] > sample[idx(j)]
          \/ /\ sample[idx(j - 1)] = sample[idx(j)]
             /\ idx(j - 1) < idx(j)
     /\ \A m \in DOMAIN sample \ Emitted :
          \/ sample[m] < sample[idx(top_k_ - 1)]
          \/ /\ sample[m] = sample[idx(top_k_ - 1)]
             /\ m > idx(top_k_ - 1)
     /\ out_max_val_ =>
          \A j \in Places : ArgTopAt(i, 1, j) = sample[idx(j)]

====
